---- MODULE Spec2Model ----
(***************************************************************************)
(* Model of the VITA genetic-programming engine (clflush/vita).            *)
(*                                                                         *)
(* Part 1: the transposition table (kernel/ttable.cc).                     *)
(* Part 2: the numeric GA individual (kernel/ga/i_num_ga*.{h,cc}).         *)
(***************************************************************************)
EXTENDS Integers, Sequences, FiniteSets, TLC

(***************************************************************************)
(* Bounds of the model.                                                    *)
(***************************************************************************)
\* The table has 2^Bits slots (constructor argument `bits`).
Bits == 1
\* Width in bits of the seal counter.  The code increments a fixed-width
\* unsigned counter; the width is scaled down so that TLC can run the
\* counter through a whole cycle.
SealBits == 1
\* Signatures of the individuals handed to the table: 1..MaxSig.
MaxSig == 3
\* Fitness values: 0..MaxFitness.
MaxFitness == 1
\* find() is not called again once probes_ has reached this value.
MaxProbes == 2
\* A stream given to ttable::load holds at most this many slot records.
MaxRecs == 1

(***************************************************************************)
(* State.                                                                  *)
(***************************************************************************)
VARIABLES
  \* ---- ttable (kernel/ttable.cc) ----
  seal_,      \* ttable::seal_
  probes_,    \* ttable::probes_
  hits_,      \* ttable::hits_
  table_,     \* ttable::table_ : slot index -> slot
  \* ---- history of the calls made on the table ----
  tt_last,    \* the last call and what it returned to the caller
  loaded,     \* TRUE once ttable::load has been called
  ins_state,  \* signature -> "never" | "live" | "stale"
  written,    \* slot index -> the last write to that slot
  \* ---- i_num_ga (kernel/ga/i_num_ga*.{h,cc}) ----
  ind,        \* the individuals at hand: name -> [genome, signature, age]
  i_last,     \* the last call made on an individual and what it returned
  \* ---- symbol_set (kernel/symbol_set.cc) ----
  sset,       \* symbol_set::all_ and symbol_set::by_
  ss_last,    \* what the last call of symbol_set::debug returned, if any
  \* ---- evolution (kernel/evolution.cc) ----
  evo,        \* the population's fitnesses, the summary and run's position
  trn,        \* the last call of evolution::tournament and its outcome
  \* ---- primitives (kernel/primitive/double.h, bool.h) ----
  ev,         \* the last evaluation of a function gene and its outcome
  \* ---- individual and gene (kernel/individual.h, kernel/gene_inl.h) ----
  mep,        \* the individuals at hand: name -> genome (locus -> gene)
  mep_last,   \* the last operation that produced an individual
  \* ---- two threads on one slot of the table (kernel/ttable.cc) ----
  race,       \* the slot, the writer's pending stores, the reader's position
  \* ---- random::ring (kernel/random.cc) ----
  rng,        \* the last call of random::ring and what it returned
  \* ---- adf and adt (kernel/adf.cc) ----
  adfs,       \* the subroutines, oldest first: the subroutines each calls
  adf_last,   \* the last evaluation of a subroutine
  \* ---- sum_of_errors_evaluator::fast (kernel/src_evaluator.cc) ----
  sev         \* the call of fast() in progress

tt_vars == <<seal_, probes_, hits_, table_, tt_last, loaded, ins_state, written>>

ind_vars == <<ind, i_last>>

ss_vars == <<sset, ss_last>>

evo_vars == <<evo, trn>>

prim_vars == <<ev>>

mep_vars == <<mep, mep_last>>

race_vars == <<race>>

rng_vars == <<rng>>

adf_vars == <<adfs, adf_last>>

sev_vars == <<sev>>

\* The components of the first parts, and those of the last ones.
first_vars == <<tt_vars, ind_vars, ss_vars, evo_vars, prim_vars, mep_vars>>

last_vars == <<race_vars, rng_vars, adf_vars, sev_vars>>

\* What the calls on one component leave alone.
not_tt_vars == <<ind_vars, ss_vars, evo_vars, prim_vars, mep_vars, last_vars>>

not_ind_vars == <<tt_vars, ss_vars, evo_vars, prim_vars, mep_vars, last_vars>>

not_ss_vars == <<tt_vars, ind_vars, evo_vars, prim_vars, mep_vars, last_vars>>

not_evo_vars == <<tt_vars, ind_vars, ss_vars, prim_vars, mep_vars, last_vars>>

not_prim_vars == <<tt_vars, ind_vars, ss_vars, evo_vars, mep_vars, last_vars>>

not_mep_vars == <<tt_vars, ind_vars, ss_vars, evo_vars, prim_vars, last_vars>>

not_race_vars == <<first_vars, rng_vars, adf_vars, sev_vars>>

not_rng_vars == <<first_vars, race_vars, adf_vars, sev_vars>>

not_adf_vars == <<first_vars, race_vars, rng_vars, sev_vars>>

not_sev_vars == <<first_vars, race_vars, rng_vars, adf_vars>>

vars == <<seal_, probes_, hits_, table_, tt_last, loaded, ins_state, written,
          ind, i_last, sset, ss_last, evo, trn, ev, mep, mep_last,
          race, rng, adfs, adf_last, sev>>

(***************************************************************************)
(* hash_t and slots.                                                       *)
(***************************************************************************)
RECURSIVE Pow2(_)
Pow2(n) == IF n = 0 THEN 1 ELSE 2 * Pow2(n - 1)

\* hash_t is a 128 bit number; data[0] is its low half.  hash_t() is empty.
EmptyHash == 0

Signatures == 1..MaxSig

Hashes == 0..MaxSig

Fitnesses == 0..MaxFitness

\* fitness_t() : the value of a default-constructed fitness
DefaultFitness == 0

SealValues == 0..(Pow2(SealBits) - 1)

\* k_mask = (1 << bits) - 1
k_mask == Pow2(Bits) - 1

SlotIndexes == 0..k_mask

\* ttable::index : h.data[0] & k_mask
index(h) == h % (k_mask + 1)

Slot(h, f, s) == [hash |-> h, fitness |-> f, seal |-> s]

\* ++seal_ on a fixed-width unsigned counter
NextSeal(s) == (s + 1) % Pow2(SealBits)

\* A test that trusts the seal of the mapped slot alone.
SlotMatchesSeal(h) == seal_ = table_[index(h)].seal

\* The test made by ttable::find and ttable::seen on the mapped slot.
SlotMatches(h) == seal_ = table_[index(h)].seal /\ h = table_[index(h)].hash

(***************************************************************************)
(* History bookkeeping.                                                    *)
(***************************************************************************)
NoCall == [op |-> "none", h |-> 0, ret |-> FALSE, f_in |-> 0, f_out |-> 0]

Call(name) == [op |-> name, h |-> 0, ret |-> FALSE, f_in |-> 0, f_out |-> 0]

NoWrite == [sig |-> 0, fit |-> 0, fresh |-> FALSE]

(***************************************************************************)
(* ttable::ttable -- seal_(1), probes_(0), hits_(0), table_(new slot[..]). *)
(* The slots are default-initialised: the hash is empty, the fitness       *)
(* is a default-constructed fitness_t and the seal holds whatever the       *)
(* allocation left there.                                                  *)
(***************************************************************************)
InitTT ==
  /\ seal_ = 1
  /\ probes_ = 0
  /\ hits_ = 0
  /\ table_ \in [SlotIndexes -> {Slot(EmptyHash, DefaultFitness, s) : s \in SealValues}]
  /\ tt_last = NoCall
  /\ loaded = FALSE
  /\ ins_state = [h \in Signatures |-> "never"]
  /\ written = [i \in SlotIndexes |-> NoWrite]

(***************************************************************************)
(* ttable::clear()                                                         *)
(***************************************************************************)
Clear ==
  /\ probes_' = 0
  /\ hits_' = 0
  /\ seal_' = NextSeal(seal_)
  /\ UNCHANGED table_
  /\ tt_last' = Call("clear")
  /\ UNCHANGED not_tt_vars
  /\ UNCHANGED loaded
  /\ IF loaded
       THEN UNCHANGED <<ins_state, written>>
       ELSE /\ ins_state' = [h \in Signatures |->
                               IF ins_state[h] = "live" THEN "stale" ELSE ins_state[h]]
            /\ written' = [i \in SlotIndexes |-> [written[i] EXCEPT !.fresh = FALSE]]

(***************************************************************************)
(* ttable::clear(const individual &)                                       *)
(***************************************************************************)
ClearInd(h) ==
  /\ table_' = [table_ EXCEPT ![index(h)].hash = EmptyHash]
  /\ UNCHANGED <<seal_, probes_, hits_>>
  /\ tt_last' = Call("clear_ind")
  /\ UNCHANGED not_tt_vars
  /\ UNCHANGED <<loaded, ins_state>>
  /\ IF loaded
       THEN UNCHANGED written
       ELSE written' = [written EXCEPT ![index(h)] = NoWrite]

(***************************************************************************)
(* ttable::find(ind, fitness): h is ind.signature(), f_in the value the    *)
(* caller's fitness variable holds before the call.                        *)
(***************************************************************************)
Find(h, f_in) ==
  /\ probes_ < MaxProbes
  /\ probes_' = probes_ + 1
  /\ LET ret == SlotMatches(h)
     IN  /\ hits_' = IF ret THEN hits_ + 1 ELSE hits_
         /\ tt_last' = [op |-> "find", h |-> h, ret |-> ret, f_in |-> f_in,
                        f_out |-> IF ret THEN table_[index(h)].fitness ELSE f_in]
  /\ UNCHANGED <<seal_, table_, loaded, ins_state, written>>
  /\ UNCHANGED not_tt_vars

(***************************************************************************)
(* ttable::insert(ind, fitness)                                            *)
(***************************************************************************)
\* An insert that keeps the entry of an individual already in the table.
InsertIfAbsent(h, f) ==
  /\ table_' = IF SlotMatches(h) THEN table_
               ELSE [table_ EXCEPT ![index(h)] = Slot(h, f, seal_)]
  /\ UNCHANGED <<seal_, probes_, hits_>>
  /\ tt_last' = Call("insert")
  /\ UNCHANGED not_tt_vars
  /\ UNCHANGED loaded
  /\ IF loaded
       THEN UNCHANGED <<ins_state, written>>
       ELSE /\ ins_state' = [ins_state EXCEPT ![h] = "live"]
            /\ written' = [written EXCEPT ![index(h)] = [sig |-> h, fit |-> f, fresh |-> TRUE]]

Insert(h, f) ==
  /\ table_' = [table_ EXCEPT ![index(h)] = Slot(h, f, seal_)]
  /\ UNCHANGED <<seal_, probes_, hits_>>
  /\ tt_last' = Call("insert")
  /\ UNCHANGED not_tt_vars
  /\ UNCHANGED loaded
  /\ IF loaded
       THEN UNCHANGED <<ins_state, written>>
       ELSE /\ ins_state' = [ins_state EXCEPT ![h] = "live"]
            /\ written' = [written EXCEPT ![index(h)] = [sig |-> h, fit |-> f, fresh |-> TRUE]]

(***************************************************************************)
(* ttable::load(std::istream &).  The stream is described by what the      *)
(* extractions yield: hdr is the number of header fields (seal, probes,    *)
(* hits, slot count) that are read successfully, recs the slot records     *)
(* that are read completely, and complete tells whether all the announced  *)
(* records were there (otherwise the extraction after recs fails).         *)
(***************************************************************************)
SlotRecords == {Slot(h, f, s) : h \in Hashes, f \in Fitnesses, s \in SealValues}

RecordSeqs == UNION {[1..k -> SlotRecords] : k \in 0..MaxRecs}

\* The counters a stream can hold.
StreamCounts == {0, MaxProbes}

\* The loop body `table_[index(s.hash)] = s` applied to the records in order.
RECURSIVE StoreRecords(_, _)
StoreRecords(t, recs) ==
  IF recs = <<>>
    THEN t
    ELSE StoreRecords([t EXCEPT ![index(Head(recs).hash)] = Head(recs)], Tail(recs))

LoadResult(hdr, t_seal, t_probes, t_hits, recs, complete) ==
  IF hdr < 4
    THEN [ret |-> FALSE, seal |-> seal_, probes |-> probes_, hits |-> hits_,
          table |-> table_]
    ELSE [ret |-> complete, seal |-> t_seal, probes |-> t_probes, hits |-> t_hits,
          table |-> StoreRecords(table_, recs)]

Load(hdr, t_seal, t_probes, t_hits, recs, complete) ==
  LET r == LoadResult(hdr, t_seal, t_probes, t_hits, recs, complete)
  IN  /\ seal_' = r.seal
      /\ probes_' = r.probes
      /\ hits_' = r.hits
      /\ table_' = r.table
      /\ tt_last' = [Call("load") EXCEPT !.ret = r.ret]
      /\ loaded' = TRUE
      /\ ins_state' = [h \in Signatures |-> "never"]
      /\ written' = [i \in SlotIndexes |-> NoWrite]
      /\ UNCHANGED not_tt_vars

LoadAny ==
  \/ \E hdr \in 0..3 : Load(hdr, 0, 0, 0, <<>>, FALSE)
  \/ \E t_seal \in SealValues, t_probes \in StreamCounts, t_hits \in StreamCounts,
        recs \in RecordSeqs, complete \in BOOLEAN :
       Load(4, t_seal, t_probes, t_hits, recs, complete)

NextTT ==
  \/ Clear
  \/ \E h \in Signatures : ClearInd(h)
  \/ \E h \in Signatures, f \in Fitnesses : Find(h, f)
  \/ \E h \in Signatures, f \in Fitnesses : Insert(h, f)

(***************************************************************************)
(* Part 2: the numeric GA individual, i_num_ga.                            *)
(*                                                                         *)
(* A hash_t value is represented here by the byte stream it is the digest  *)
(* of: MurmurHash3 is taken to be collision free on these streams and      *)
(* never to yield the empty hash.                                          *)
(***************************************************************************)
\* inc_age() is not called on an individual whose age has reached MaxAge.
MaxAge == 1

\* The symbol set: terminals with their opcode, category and parametric flag.
Symbols ==
  { [opcode |-> 0, category |-> 0, parametric |-> TRUE],
    [opcode |-> 1, category |-> 1, parametric |-> TRUE],
    [opcode |-> 2, category |-> 1, parametric |-> FALSE] }

\* symbol_set::categories
categories == Cardinality({s.category : s \in Symbols})

\* Values of gene::par (a double), in millionths: 1.234567 and 1.23457.
ParValues == {1234567, 1234570}

\* The names of the individuals at hand.
Inds == {"a", "b"}

\* Mutation probabilities, in percent.
Probabilities == {0, 50, 100}

NullSym == [opcode |-> 0 - 1, category |-> 0 - 1, parametric |-> FALSE]

\* symbol_set::decode(opcode_t): the symbol, or nullptr
SymbolOf == [o \in {s.opcode : s \in Symbols} |-> CHOOSE s \in Symbols : s.opcode = o]

decode(opcode) == IF opcode \in DOMAIN SymbolOf THEN SymbolOf[opcode] ELSE NullSym

\* symbol_set::roulette_terminal(c): any terminal of category c
roulette_terminal(c) == {s \in Symbols : s.category = c}

\* basic_gene(symbol *t): par = t->init() when t is parametric, otherwise par
\* is left uninitialised (the gene then has no par field: nothing but
\* save() reads it).
gene(t) ==
  IF t.parametric
    THEN {[sym |-> t.opcode, par |-> v] : v \in ParValues}
    ELSE {[sym |-> t.opcode]}

\* gene(sset.roulette_terminal(c)), c counted from 0
RandomGenes(c) == UNION {gene(t) : t \in roulette_terminal(c)}

AllGenes == UNION {RandomGenes(c) : c \in 0..(categories - 1)}

\* The genomes the constructor's loop can build.
RandomGenomes ==
  {g \in [1..categories -> AllGenes] : \A c \in 1..categories : g[c] \in RandomGenes(c - 1)}

\* basic_gene::operator==
GeneEq(g1, g2) ==
  /\ g1.sym = g2.sym
  /\ (decode(g1.sym).parametric => g1.par = g2.par)

\* std::vector<gene>::operator==
GenomeEq(x, y) ==
  /\ Len(x) = Len(y)
  /\ \A c \in 1..Len(x) : GeneEq(x[c], y[c])

\* hash_t() and hash_t::empty()
NoSignature == [digest |-> <<>>]

\* The two bytes of a 16 bit value (two's complement, low byte first).
Bytes16(w) ==
  LET u == (w + 65536) % 65536
  IN  <<u % 256, u \div 256>>

\* static_cast<std::int16_t>(g.par): the fraction is dropped
Trunc16(v) == IF v >= 0 THEN v \div 1000000 ELSE 0 - ((0 - v) \div 1000000)

\* The bytes i_num_ga::pack pushes for one gene.
PackGene(g) ==
  Bytes16(g.sym) \o (IF decode(g.sym).parametric THEN Bytes16(Trunc16(g.par)) ELSE <<>>)

\* i_num_ga::pack
RECURSIVE pack(_)
pack(genome) ==
  IF genome = <<>> THEN <<>> ELSE PackGene(Head(genome)) \o pack(Tail(genome))

\* i_num_ga::hash
hash(genome) == [digest |-> pack(genome)]

\* i_num_ga::signature: the individual afterwards and the value returned
signature(i) ==
  LET s == IF i.signature = NoSignature THEN hash(i.genome) ELSE i.signature
  IN  [ind |-> [i EXCEPT !.signature = s], ret |-> s]

\* i_num_ga::operator==
OpEq(x, y) == x.signature = y.signature /\ GenomeEq(x.genome, y.genome)

\* i_num_ga::distance
distance(x, y) == Cardinality({c \in 1..Len(x.genome) : ~GeneEq(x.genome[c], y.genome[c])})

\* A Bernoulli trial that ignores its probability.
boolean_any(p) == BOOLEAN

\* random::boolean(p): the outcomes a Bernoulli trial of probability p has
boolean(p) == IF p = 0 THEN {FALSE} ELSE IF p = 100 THEN {TRUE} ELSE BOOLEAN

\* i_num_ga::i_num_ga(env, sset)
NewIndividuals == {[genome |-> g, signature |-> NoSignature, age |-> 0] : g \in RandomGenomes}

\* A mutation whose counter is incremented at every position visited.
mutation_counts_all(i, coins, draws) ==
  [ind |-> [i EXCEPT !.genome = [c \in 1..Len(i.genome) |->
                                   IF coins[c] THEN draws[c] ELSE i.genome[c]]],
   n |-> Len(i.genome)]

\* i_num_ga::mutation(p): coins[c] is the outcome of random::boolean(p) at
\* position c and draws[c] the gene drawn there; yields the individual
\* afterwards and the value returned.
mutation(i, coins, draws) ==
  [ind |-> [i EXCEPT !.genome = [c \in 1..Len(i.genome) |->
                                   IF coins[c] THEN draws[c] ELSE i.genome[c]]],
   n |-> Cardinality({c \in 1..Len(i.genome) : coins[c]})]

Max(x, y) == IF x >= y THEN x ELSE y

\* i_num_ga::crossover(i_num_ga rhs): positions cut1 <= i < cut2 (counted
\* from 0) of the copy rhs take the genes of *this
crossover(this, rhs, cut1, cut2) ==
  [rhs EXCEPT !.genome = [c \in 1..Len(rhs.genome) |->
                            IF cut1 <= c - 1 /\ c - 1 < cut2 THEN this.genome[c]
                                                              ELSE rhs.genome[c]],
              !.age = Max(this.age, rhs.age)]

\* i_num_ga::operator=(const std::vector<gene::param_type> &)
assign(i, v) ==
  [i EXCEPT !.genome = [c \in 1..Len(i.genome) |->
                          IF decode(i.genome[c].sym).parametric
                            THEN [i.genome[c] EXCEPT !.par = v[c]]
                            ELSE i.genome[c]]]

\* individual::set(locus, gene)
set(i, c, g) == [i EXCEPT !.genome[c] = g, !.signature = NoSignature]

\* The value random::between(f[0], f[1]) yields for the weights env.de.weight
\* (1.0, in millionths).
DeWeights == {1000000}

\* x[i]: the parameter of a gene; junk is what reading the uninitialised
\* parameter of a gene that is not parametric yields.
ParOf(g, junk) == IF "par" \in DOMAIN g THEN g.par ELSE junk

\* A differential evolution crossover whose offspring starts a new life.
de_crossover_newborn(this, a, b, coins, w, junk) ==
  [this EXCEPT
     !.genome = [c \in 1..Len(this.genome) |->
                   IF coins[c] /\ decode(this.genome[c].sym).parametric
                     THEN [this.genome[c] EXCEPT
                             !.par = @ + (w * (ParOf(a.genome[c], junk) - ParOf(b.genome[c], junk)))
                                          \div 1000000]
                     ELSE this.genome[c]],
     !.age = 0]

\* i_num_ga::crossover(const i_num_ga &a, const i_num_ga &b): at the
\* positions whose coin is TRUE, off[i] += w * (a[i] - b[i]), where x[i] is
\* the parameter of the gene at position i.  Nothing reads afterwards the
\* parameter of a gene of *this that is not parametric.
de_crossover(this, a, b, coins, w, junk) ==
  [this EXCEPT
     !.genome = [c \in 1..Len(this.genome) |->
                   IF coins[c] /\ decode(this.genome[c].sym).parametric
                     THEN [this.genome[c] EXCEPT
                             !.par = @ + (w * (ParOf(a.genome[c], junk) - ParOf(b.genome[c], junk)))
                                          \div 1000000]
                     ELSE this.genome[c]],
     !.age = Max(this.age, Max(a.age, b.age))]

\* i_num_ga::debug (the symbol set holds terminals only and the environment
\* is sound): every position c holds a symbol of category c and a cached
\* signature equals hash().
debug(i) ==
  /\ \A c \in 1..categories :
       /\ decode(i.genome[c].sym) # NullSym
       /\ decode(i.genome[c].sym).category = c - 1
  /\ i.signature \in {NoSignature, hash(i.genome)}

\* What debug() can return: on a genome shorter than the number of
\* categories it reads past the end of genome_.
DebugOutcomes(i) == IF Len(i.genome) < categories THEN BOOLEAN ELSE {debug(i)}

(***************************************************************************)
(* Serialization.  operator<< writes a double with 6 significant digits;   *)
(* PrintDouble gives the number the text denotes.                          *)
(***************************************************************************)
RECURSIVE Digits(_)
Digits(v) == IF v < 10 THEN 1 ELSE 1 + Digits(v \div 10)

RECURSIVE Pow10(_)
Pow10(n) == IF n = 0 THEN 1 ELSE 10 * Pow10(n - 1)

RoundTo6(v) ==
  IF Digits(v) <= 6
    THEN v
    ELSE LET q == Pow10(Digits(v) - 6)
         IN  ((v + (q \div 2)) \div q) * q

PrintDouble(v) == IF v >= 0 THEN RoundTo6(v) ELSE 0 - RoundTo6(0 - v)

\* i_num_ga::save: age, size, then opcode and parameter of every gene.  The
\* parameter of a non parametric gene is an uninitialised double: its text
\* has no definite value (no par field).
save(i) ==
  [age |-> i.age,
   size |-> Len(i.genome),
   genes |-> [c \in 1..Len(i.genome) |->
                IF decode(i.genome[c].sym).parametric
                  THEN [opcode |-> i.genome[c].sym, par |-> PrintDouble(i.genome[c].par)]
                  ELSE [opcode |-> i.genome[c].sym]]]

\* Number of whitespace-delimited fields save() writes.
Fields(stream) == 2 + 2 * stream.size

LoadedGene(t) ==
  IF decode(t.opcode).parametric
    THEN [sym |-> t.opcode, par |-> t.par]
    ELSE [sym |-> t.opcode]

\* Reading back the text of an uninitialised double can succeed or fail.
JunkOutcomes(stream) ==
  IF \E c \in 1..stream.size : "par" \notin DOMAIN stream.genes[c]
    THEN BOOLEAN
    ELSE {TRUE}

\* A load that stores the age as soon as it has read it.
load_eager(i, stream, avail, junk_ok) ==
  LET ok == /\ avail >= 2
            /\ stream.size # 0
            /\ \A c \in 1..stream.size :
                 /\ avail >= 2 * c + 2
                 /\ decode(stream.genes[c].opcode) # NullSym
                 /\ ("par" \in DOMAIN stream.genes[c] \/ junk_ok)
  IN  IF ok
        THEN [ret |-> TRUE,
              ind |-> [genome |-> [c \in 1..stream.size |-> LoadedGene(stream.genes[c])],
                       signature |-> NoSignature,
                       age |-> stream.age]]
        ELSE [ret |-> FALSE,
              ind |-> IF avail >= 1 THEN [i EXCEPT !.age = stream.age] ELSE i]

\* i_num_ga::load from the first `avail` fields of `stream`; junk_ok tells
\* whether the text of an uninitialised double can be read back as a double.
load(i, stream, avail, junk_ok) ==
  LET ok == /\ avail >= 2
            /\ stream.size # 0
            /\ \A c \in 1..stream.size :
                 /\ avail >= 2 * c + 1
                 /\ decode(stream.genes[c].opcode) # NullSym
                 /\ avail >= 2 * c + 2
                 /\ ("par" \in DOMAIN stream.genes[c] \/ junk_ok)
  IN  IF ok
        THEN [ret |-> TRUE,
              ind |-> [genome |-> [c \in 1..stream.size |-> LoadedGene(stream.genes[c])],
                       signature |-> NoSignature,
                       age |-> stream.age]]
        ELSE [ret |-> FALSE, ind |-> i]

(***************************************************************************)
(* The calls made on the individuals.                                      *)
(***************************************************************************)
ICall(name) ==
  [op |-> name, p |-> 0, n |-> 0, trials |-> 0, d |-> 0, ret |-> FALSE,
   whole |-> FALSE, same_age |-> FALSE, same_genes |-> FALSE, eq |-> FALSE,
   age |-> 0, parents_age |-> 0]

InitInd ==
  /\ ind \in [Inds -> NewIndividuals]
  /\ i_last = ICall("other")

\* vita::i_num_ga k(env, sset)
Create(k) ==
  /\ \E i \in NewIndividuals : ind' = [ind EXCEPT ![k] = i]
  /\ i_last' = ICall("other")
  /\ UNCHANGED not_ind_vars

\* vita::i_num_ga j(k)
Copy(k, j) ==
  /\ k # j
  /\ ind' = [ind EXCEPT ![j] = ind[k]]
  /\ i_last' = ICall("other")
  /\ UNCHANGED not_ind_vars

\* k.inc_age()
IncAge(k) ==
  /\ ind[k].age < MaxAge
  /\ ind' = [ind EXCEPT ![k].age = @ + 1]
  /\ i_last' = ICall("other")
  /\ UNCHANGED not_ind_vars

\* k.signature()
Signature(k) ==
  LET r == signature(ind[k])
  IN  /\ ind' = [ind EXCEPT ![k] = r.ind]
      /\ i_last' = [ICall("signature") EXCEPT !.eq = (r.ret = hash(r.ind.genome))]
      /\ UNCHANGED not_ind_vars

\* The genes drawn by a call of mutation: one at every position whose coin
\* is TRUE (the other positions of the function are not used).
DrawsFor(coins) ==
  {g \in RandomGenomes :
     \A c \in DOMAIN coins :
       ~coins[c] => g[c] = (CHOOSE x \in RandomGenes(c - 1) : TRUE)}

\* k.mutation(p)
Mutation(k, p) ==
  \E coins \in [1..Len(ind[k].genome) -> boolean(p)] :
  \E draws \in DrawsFor(coins) :
    LET r == mutation(ind[k], coins, draws)
    IN  /\ ind' = [ind EXCEPT ![k] = r.ind]
        /\ i_last' = [ICall("mutation") EXCEPT
                        !.p = p,
                        !.n = r.n,
                        !.trials = Cardinality({c \in DOMAIN coins : coins[c]}),
                        !.d = distance(ind[k], r.ind),
                        !.same_age = (r.ind.age = ind[k].age),
                        !.same_genes = GenomeEq(r.ind.genome, ind[k].genome),
                        !.eq = OpEq(r.ind, ind[k])]
        /\ UNCHANGED not_ind_vars

\* dst = k.crossover(j)
Crossover(k, j, dst) ==
  \E cut1 \in 0..(Len(ind[k].genome) - 2) :
    \E cut2 \in (cut1 + 1)..(Len(ind[k].genome) - 1) :
      LET off == crossover(ind[k], ind[j], cut1, cut2)
      IN  /\ ind' = [ind EXCEPT ![dst] = off]
          /\ i_last' = [ICall("crossover") EXCEPT
                          !.age = off.age,
                          !.parents_age = Max(ind[k].age, ind[j].age)]
          /\ UNCHANGED not_ind_vars

\* The parameters stay within the range spanned by ParValues.
ParMin == CHOOSE v \in ParValues : \A u \in ParValues : v <= u

ParMax == CHOOSE v \in ParValues : \A u \in ParValues : u <= v

ParsInRange(i) ==
  \A c \in 1..Len(i.genome) :
    "par" \in DOMAIN i.genome[c] => (ParMin <= i.genome[c].par /\ i.genome[c].par <= ParMax)

\* The values an uninitialised parameter of a or b can be read as, when
\* there is one.
JunkValues(a, b) ==
  IF \E c \in 1..Len(a.genome) : "par" \notin DOMAIN a.genome[c] \/ "par" \notin DOMAIN b.genome[c]
    THEN ParValues
    ELSE {CHOOSE v \in ParValues : TRUE}

\* k = k.crossover(a, b), the offspring taking the place of its first
\* parent; p_cross is any probability.
DeCrossover(k, a, b) ==
  \E coins \in [1..Len(ind[k].genome) -> BOOLEAN], w \in DeWeights,
     junk \in JunkValues(ind[a], ind[b]) :
    LET off == de_crossover(ind[k], ind[a], ind[b], coins, w, junk)
    IN  /\ ParsInRange(off)
        /\ ind' = [ind EXCEPT ![k] = off]
        /\ i_last' = [ICall("de_crossover") EXCEPT
                        !.age = off.age,
                        !.parents_age = Max(ind[k].age, Max(ind[a].age, ind[b].age))]
        /\ UNCHANGED not_ind_vars

\* k = v
Assign(k, v) ==
  /\ ind' = [ind EXCEPT ![k] = assign(ind[k], v)]
  /\ i_last' = ICall("other")
  /\ UNCHANGED not_ind_vars

\* k.set(c, g)
Set(k, c, g) ==
  /\ ind' = [ind EXCEPT ![k] = set(ind[k], c, g)]
  /\ i_last' = ICall("other")
  /\ UNCHANGED not_ind_vars

\* k.save(ss); j.load(ss), the stream possibly cut short.  The comparisons
\* of the loaded individual with k are recorded when load returned true.
SaveLoad(k, j, avail, junk_ok) ==
  LET r == load(ind[j], save(ind[k]), avail, junk_ok)
  IN  /\ k # j
      /\ ind' = [ind EXCEPT ![j] = r.ind]
      /\ i_last' = [ICall("load") EXCEPT
                      !.ret = r.ret,
                      !.whole = (avail = Fields(save(ind[k]))),
                      !.same_age = (r.ret /\ r.ind.age = ind[k].age),
                      !.same_genes = (r.ret /\ GenomeEq(r.ind.genome, ind[k].genome)),
                      !.eq = (r.ret /\ OpEq(ind[k], r.ind))]
      /\ UNCHANGED not_ind_vars

\* An opcode no symbol of the symbol set has.
UnknownOpcode == Cardinality(Symbols)

\* The streams handed to load: any age, any gene count up to the number of
\* categories, any opcode (known or not) at any position.
StreamGenes ==
  {[opcode |-> o, par |-> ParMax] : o \in {s.opcode : s \in Symbols} \cup {UnknownOpcode}}

Streams ==
  UNION {{[age |-> a, size |-> n, genes |-> g] : a \in {0, MaxAge}, g \in [1..n -> StreamGenes]} :
           n \in 0..categories}

\* k.load(in), in holding the first `avail` fields of `stream`
LoadStream(k, stream, avail) ==
  LET r == load(ind[k], stream, avail, TRUE)
  IN  /\ ind' = [ind EXCEPT ![k] = r.ind]
      /\ i_last' = [ICall("load_stream") EXCEPT
                      !.ret = r.ret,
                      !.whole = (avail = Fields(stream))]
      /\ UNCHANGED not_ind_vars

\* k == j
Compare(k, j) ==
  /\ UNCHANGED ind
  /\ i_last' = [ICall("eq") EXCEPT
                  !.eq = OpEq(ind[k], ind[j]),
                  !.same_genes = GenomeEq(ind[k].genome, ind[j].genome)]
  /\ UNCHANGED not_ind_vars

NextInd ==
  \/ \E k \in Inds : Create(k)
  \/ \E k \in Inds, j \in Inds : Copy(k, j)
  \/ \E k \in Inds : IncAge(k)
  \/ \E k \in Inds : Signature(k)
  \/ \E k \in Inds, p \in Probabilities : Mutation(k, p)
  \/ \E k \in Inds, j \in Inds, dst \in Inds : Crossover(k, j, dst)
  \/ \E k \in Inds, v \in [1..categories -> ParValues] : Assign(k, v)
  \/ \E k \in Inds, c \in 1..categories : \E g \in RandomGenes(c - 1) : Set(k, c, g)
  \/ \E k \in Inds, j \in Inds :
       \E avail \in 0..Fields(save(ind[k])), junk_ok \in JunkOutcomes(save(ind[k])) :
         SaveLoad(k, j, avail, junk_ok)
  \/ \E k \in Inds, j \in Inds : Compare(k, j)

(***************************************************************************)
(* Part 3: the symbol set (kernel/symbol_set.cc).                          *)
(***************************************************************************)
\* The symbols that can be inserted: terminals and functions (args lists the
\* categories of a function's arguments), none of them automatically
\* defined, all of weight 1.
SsSymbols ==
  { [opcode |-> 10, category |-> 0, terminal |-> TRUE,  args |-> <<>>,
     weight |-> 1, auto_defined |-> FALSE],
    [opcode |-> 11, category |-> 1, terminal |-> TRUE,  args |-> <<>>,
     weight |-> 1, auto_defined |-> FALSE],
    [opcode |-> 12, category |-> 0, terminal |-> FALSE, args |-> <<0, 0>>,
     weight |-> 1, auto_defined |-> FALSE],
    [opcode |-> 13, category |-> 1, terminal |-> FALSE, args |-> <<0>>,
     weight |-> 1, auto_defined |-> FALSE],
    [opcode |-> 14, category |-> 0, terminal |-> FALSE, args |-> <<1>>,
     weight |-> 1, auto_defined |-> FALSE],
    \* an adf and an adt
    [opcode |-> 15, category |-> 0, terminal |-> FALSE, args |-> <<0>>,
     weight |-> 2, auto_defined |-> TRUE],
    [opcode |-> 16, category |-> 1, terminal |-> TRUE,  args |-> <<>>,
     weight |-> 1, auto_defined |-> TRUE] }

\* symbol_set::collection::collection()
EmptyCollection ==
  [symbols |-> <<>>, terminals |-> <<>>, adf |-> <<>>, adt |-> <<>>, sum |-> 0]

Range(q) == {q[i] : i \in 1..Len(q)}

RECURSIVE SumWeights(_)
SumWeights(q) == IF q = <<>> THEN 0 ELSE Head(q).weight + SumWeights(Tail(q))

\* std::sort by descending weight; symbols of the same weight keep their
\* order.
RECURSIVE sort_by_weight(_)
sort_by_weight(q) ==
  IF q = <<>> THEN <<>>
  ELSE LET m == CHOOSE w \in {x.weight : x \in Range(q)} :
                  \A x \in Range(q) : x.weight <= w
       IN  SelectSeq(q, LAMBDA x : x.weight = m)
             \o sort_by_weight(SelectSeq(q, LAMBDA x : x.weight # m))

\* The number of categories by_category makes: one for every category up
\* to the greatest one among the symbols.
categories_of(c) ==
  LET cats == {x.category : x \in Range(c.symbols)}
  IN  IF cats = {} THEN 0 ELSE 1 + (CHOOSE m \in cats : \A x \in cats : x <= m)

\* symbol_set::by_category::by_category(const collection &): one collection
\* for every category up to the greatest one in use, its symbols sorted.
by_category(c) ==
  [cat \in 0..(categories_of(c) - 1) |->
     [symbols |-> sort_by_weight(SelectSeq(c.symbols, LAMBDA x : x.category = cat)),
      terminals |-> SelectSeq(c.terminals, LAMBDA x : x.category = cat),
      adf |-> SelectSeq(c.adf, LAMBDA x : x.category = cat),
      adt |-> SelectSeq(c.adt, LAMBDA x : x.category = cat),
      sum |-> SumWeights(SelectSeq(c.symbols, LAMBDA x : x.category = cat))]]

\* by_category indexes category[] with the category of every terminal, adf
\* and adt of c, while category[] is sized from the symbols of c alone: a
\* category beyond them is an access out of the vector.
overruns(c) ==
  \E x \in Range(c.terminals) \cup Range(c.adf) \cup Range(c.adt) :
    x.category >= categories_of(c)

\* symbol_set::categories on a value of by_
ss_categories(by) == Cardinality(DOMAIN by)

\* symbol_set::collection::debug
collection_debug(c) ==
  /\ \A x \in Range(c.symbols) :
       /\ x.weight # 0
       /\ (x.terminal <=> x \in Range(c.terminals))
       /\ (x.terminal /\ x.auto_defined) => x \in Range(c.adt)
       /\ (~x.terminal /\ x.auto_defined) => x \in Range(c.adf)
  /\ SumWeights(c.symbols) = c.sum
  /\ Len(c.symbols) >= Len(c.terminals)
  /\ Len(c.symbols) >= Len(c.adf)
  /\ Len(c.symbols) >= Len(c.adt)

\* symbol_set::enough_terminals: every category some function takes an
\* argument from exists and holds a terminal.
enough_terminals(ss) ==
  LET need == UNION {Range(x.args) : x \in Range(ss.all_.symbols)}
  IN  \A i \in need : ~(i >= ss_categories(ss.by_) \/ Len(ss.by_[i].terminals) = 0)

\* symbol_set::debug
ss_debug(ss) ==
  /\ collection_debug(ss.all_)
  /\ \A c \in DOMAIN ss.by_ : collection_debug(ss.by_[c])
  /\ enough_terminals(ss)

\* symbol_set::symbol_set()
InitSS ==
  /\ sset = [all_ |-> EmptyCollection, by_ |-> by_category(EmptyCollection),
             overrun |-> FALSE]
  /\ ss_last = [called |-> FALSE, ret |-> FALSE]

\* symbol_set::insert: by_ is made from all_ before all_.symbols is sorted.
\* overrun tells that by_category has ever gone out of its vector; the
\* run that goes on has skipped the access.
ss_insert(ss, x) ==
  LET all == [symbols |-> Append(ss.all_.symbols, x),
              terminals |-> IF x.terminal THEN Append(ss.all_.terminals, x)
                                          ELSE ss.all_.terminals,
              adf |-> IF ~x.terminal /\ x.auto_defined
                        THEN Append(ss.all_.adf, x) ELSE ss.all_.adf,
              adt |-> IF x.terminal /\ x.auto_defined
                        THEN Append(ss.all_.adt, x) ELSE ss.all_.adt,
              sum |-> ss.all_.sum + x.weight]
  IN  [all_ |-> [all EXCEPT !.symbols = sort_by_weight(@)],
       by_ |-> by_category(all),
       overrun |-> ss.overrun \/ overruns(all)]

\* The opcodes of the symbols that were inserted.
inserted(ss) ==
  {x.opcode : x \in Range(ss.all_.symbols) \cup Range(ss.all_.adf)
                     \cup Range(ss.all_.adt)}

SsInsert(x) ==
  /\ x.opcode \notin inserted(sset)
  /\ sset' = ss_insert(sset, x)
  /\ ss_last' = [called |-> FALSE, ret |-> FALSE]
  /\ UNCHANGED not_ss_vars

\* reset_adf_weights: what is taken from a weight.
delta(w) == IF w > 1 THEN w \div 2 ELSE IF w = 1 THEN 1 ELSE 0

\* symbol_set::reset_adf_weights.  The vectors hold pointers to the same
\* symbols: the new weight of an adt or adf shows in every vector.  An adt
\* whose weight becomes 0 is erased from all_.terminals and all_.symbols;
\* an adf is not.
reset_adf_weights(ss) ==
  LET c == ss.all_
      auto == {x.opcode : x \in Range(c.adt) \cup Range(c.adf)}
      erased == {x.opcode : x \in {y \in Range(c.adt) : y.weight = 1}}
      lighter(q) == [i \in DOMAIN q |->
                      IF q[i].opcode \in auto
                        THEN [q[i] EXCEPT !.weight = @ - delta(@)] ELSE q[i]]
      kept(q) == SelectSeq(lighter(q), LAMBDA x : x.opcode \notin erased)
      deltas(q) == SumWeights([i \in DOMAIN q |-> [weight |-> delta(q[i].weight)]])
      all == [symbols |-> kept(c.symbols),
              terminals |-> kept(c.terminals),
              adf |-> lighter(c.adf),
              adt |-> lighter(c.adt),
              sum |-> c.sum - deltas(c.adt) - deltas(c.adf)]
  IN  [all_ |-> all, by_ |-> by_category(all),
       overrun |-> ss.overrun \/ overruns(all)]

SsResetAdfWeights ==
  /\ sset' = reset_adf_weights(sset)
  /\ ss_last' = [called |-> FALSE, ret |-> FALSE]
  /\ UNCHANGED not_ss_vars

\* sset.debug()
SsDebug ==
  /\ ss_last' = [called |-> TRUE, ret |-> ss_debug(sset)]
  /\ UNCHANGED sset
  /\ UNCHANGED not_ss_vars

NextSS ==
  \/ \E x \in SsSymbols : SsInsert(x)
  \/ SsResetAdfWeights
  \/ SsDebug

(***************************************************************************)
(* Part 4: evolution (kernel/evolution.cc) and random::ring.               *)
(*                                                                         *)
(* The population is seen through the fitness of its individuals, which is *)
(* all that selection, replacement and the summary look at.                *)
(***************************************************************************)
PopSize == 3

MaxGen == 2

MaxRounds == 2

PopIndexes == 0..(PopSize - 1)

Populations == [PopIndexes -> Fitnesses]

\* What a call that draws random numbers comes to: a value, or the end of
\* the program on a failed assert.
Drawn(v) == [ok |-> TRUE, v |-> v]

Aborted == [ok |-> FALSE, v |-> 0]

\* random::between<unsigned>(min, sup).  With min >= sup the assert fails
\* where asserts are compiled in; elsewhere the distribution is built with
\* bounds (min, sup - 1) that break its precondition and yields any value.
between(min, sup, any) ==
  IF min < sup THEN {Drawn(v) : v \in min..(sup - 1)}
  ELSE {Aborted} \cup {Drawn(v) : v \in any}

\* The width of an unsigned, in bits.
UBits == 3

\* Unsigned arithmetic: the result modulo 2^UBits.
unsigned(x) == x % Pow2(UBits)

\* A ring that ignores base and width.
ring_any(base, width, n) == between(0, n, {})

\* random::ring(base, width, n).
ring(base, width, n) ==
  IF width = 0
    THEN {Aborted} \cup
         (IF base >= n THEN between(0, n, {})
          ELSE {Drawn(unsigned(unsigned(n + base) + r.v) % n)
                  : r \in {x \in between(0, 0, 0..(n - 1)) : x.ok}})
    ELSE IF base >= n THEN between(0, n, {})
    ELSE LET w == IF width > n THEN n ELSE width
             offset == unsigned(unsigned(n + base) - (w \div 2))
         IN  {Drawn(unsigned(offset + r.v) % n) : r \in between(0, w, {})}

\* The comparison of a tournament round.
beats(pop, j, sel, best) ==
  IF best THEN pop[j] > pop[sel] ELSE pop[j] < pop[sel]

\* The selections evolution::tournament can hold after round i, from the
\* selections S it can hold before, drawing from the candidates cand.
RECURSIVE tournament_rounds(_, _, _, _, _, _)
tournament_rounds(S, cand, pop, best, i, rounds) ==
  IF i >= rounds THEN S
  ELSE tournament_rounds({IF beats(pop, j, sel, best) THEN j ELSE sel :
                            sel \in S, j \in cand},
                         cand, pop, best, i + 1, rounds)

\* evolution::tournament(target, best): every outcome of the call.
tournament(pop, target, best, mate_zone, rounds) ==
  LET R == ring(target, mate_zone, PopSize)
      cand == {r.v : r \in {x \in R : x.ok}}
  IN  {Drawn(v) : v \in tournament_rounds(cand, cand, pop, best, 1, rounds)}
        \cup (R \cap {Aborted})

NoTournament ==
  [called |-> FALSE, target |-> 0, mate_zone |-> 0, ok |-> TRUE, sel |-> 0]

\* analyzer::fit_dist().variance <= float_epsilon, after pick_stats.
flat_fitness(pop) == \A a \in PopIndexes, b \in PopIndexes : pop[a] = pop[b]

improves_any(f_off, f_best) == f_off # f_best

\* The test that promotes the offspring to best individual of the run.
improves(f_off, f_best) == f_off - f_best > 0

\* evolution::stop_condition.
stop_condition(e) ==
  \/ e.G # 0 /\ e.gen > e.G
  \/ /\ e.gwi # 0
     /\ \/ e.gen - e.last_imp > e.gwi
        \/ e.gen - e.last_imp > e.gwi \div 2 /\ e.flat

\* An evolution object before run(): environment, population and hook.
IdleEvolutions ==
  [pc : {"idle"}, G : 1..MaxGen, gwi : {0, MaxGen}, shake : BOOLEAN,
   mate_zone : 1..PopSize, pop : Populations,
   gen : {0}, k : {0}, f_best : {0}, last_imp : {0}, flat : {TRUE},
   bodies : {0}, shaken : {FALSE}, warm : {FALSE}, az_wrong : {FALSE}]

\* pick_stats: what the analyzer is given for the members of the population.
\* A member that find() hits is recorded with its fitness, as pop has it; a
\* member that find() misses is recorded with the value of a variable that
\* nothing has assigned.  Which members have an entry depends on the slots
\* their signatures map to: none just after clear(), and later any of them
\* can have been evicted or never evaluated.
pick_stats(pop) == Populations

\* What is kept of the statistics: whether the recorded fitnesses have no
\* variance, and whether they differ from the fitnesses of the members.
analyzed(pop) ==
  {[flat |-> flat_fitness(az), wrong |-> az # pop] : az \in pick_stats(pop)}

InitEvo ==
  /\ evo \in IdleEvolutions
  /\ trn = NoTournament

\* evolution::run, up to the first test of the loop.
EvoRun ==
  /\ evo.pc = "idle"
  /\ evo' = [evo EXCEPT !.pc = "test", !.gen = 0, !.last_imp = 0,
                        !.flat = TRUE, !.f_best = evo.pop[0],
                        !.warm = FALSE, !.az_wrong = FALSE]
  /\ UNCHANGED trn
  /\ UNCHANGED not_evo_vars

\* The loop's test holds: run returns the summary.
EvoStop ==
  /\ evo.pc = "test"
  /\ stop_condition(evo)
  /\ evo' = [evo EXCEPT !.pc = "done", !.shaken = FALSE, !.az_wrong = FALSE]
  /\ UNCHANGED trn
  /\ UNCHANGED not_evo_vars

\* The loop's test fails: the head of the body.  The shake hook, when there
\* is one, changes the training set, hence the fitness of any individual
\* that is evaluated again; the cache is left as it is.  The summary's best
\* is taken again from the first individual; then the statistics.
EvoGeneration ==
  /\ evo.pc = "test"
  /\ ~stop_condition(evo)
  /\ \E pop \in (IF evo.shake THEN Populations ELSE {evo.pop}) :
       \E az \in analyzed(pop) :
         evo' = [evo EXCEPT !.pc = "step", !.k = 0, !.pop = pop,
                   !.f_best = IF evo.shake THEN pop[0] ELSE @,
                   !.flat = az.flat,
                   !.az_wrong = az.wrong,
                   !.bodies = @ + 1, !.shaken = evo.shake]
  /\ UNCHANGED trn
  /\ UNCHANGED not_evo_vars

\* The selection of one turn of the inner loop: r1 = tournament(size, true),
\* r2 = tournament(r1, true), rep_idx = tournament(r1, false).  The turn goes
\* on when the three calls return; only rep_idx matters to what follows.
selection(pop, mate_zone) ==
  LET parents ==
        {r1 \in tournament(pop, PopSize, TRUE, mate_zone, MaxRounds) :
           /\ r1.ok
           /\ \E r2 \in tournament(pop, r1.v, TRUE, mate_zone, MaxRounds) : r2.ok}
  IN  UNION {{rep_idx.v : rep_idx \in
                {r \in tournament(pop, r1.v, FALSE, mate_zone, MaxRounds) : r.ok}}
             : r1 \in parents}

\* One turn of the inner loop: selection, offspring, replacement, best.
\* The fitness of the offspring is stored in the cache.
EvoStep ==
  /\ evo.pc = "step"
  /\ evo.k < PopSize
  /\ \E rep_idx \in selection(evo.pop, evo.mate_zone), f_off \in Fitnesses :
       evo' = [evo EXCEPT
                 !.k = @ + 1,
                 !.pop = IF evo.pop[rep_idx] < f_off
                           THEN [@ EXCEPT ![rep_idx] = f_off] ELSE @,
                 !.last_imp = IF improves(f_off, evo.f_best) THEN evo.gen ELSE @,
                 !.f_best = IF improves(f_off, evo.f_best) THEN f_off ELSE @,
                 !.warm = TRUE,
                 !.shaken = FALSE, !.az_wrong = FALSE]
  /\ UNCHANGED trn
  /\ UNCHANGED not_evo_vars

\* The inner loop is over: ++gen, back to the test.
EvoEndGeneration ==
  /\ evo.pc = "step"
  /\ evo.k = PopSize
  /\ evo' = [evo EXCEPT !.pc = "test", !.gen = @ + 1, !.shaken = FALSE,
                        !.az_wrong = FALSE]
  /\ UNCHANGED trn
  /\ UNCHANGED not_evo_vars

NextEvo ==
  \/ EvoRun
  \/ EvoStop
  \/ EvoGeneration
  \/ EvoStep
  \/ EvoEndGeneration

\* A call of evolution::tournament under any setting of the environment.
Tournament(target, best, mate_zone, rounds) ==
  /\ evo.pc = "idle"
  /\ \E r \in tournament(evo.pop, target, best, mate_zone, rounds) :
       trn' = [called |-> TRUE, target |-> target, mate_zone |-> mate_zone,
               ok |-> r.ok, sel |-> r.v]
  /\ UNCHANGED evo
  /\ UNCHANGED not_evo_vars

NextTournament ==
  \E target \in 0..PopSize, best \in BOOLEAN, mate_zone \in 0..PopSize,
     rounds \in 1..MaxRounds : Tournament(target, best, mate_zone, rounds)

(***************************************************************************)
(* Part 5: the primitives' eval (kernel/primitive/double.h, bool.h).       *)
(*                                                                         *)
(* A value is a boost::any / std::any: empty, or holding a number.  The    *)
(* finite doubles are scaled to 0..MaxDouble, any larger result is inf;    *)
(* a bool is held as 0 or 1.  The arguments of a function gene are given   *)
(* by what their loci evaluate to.                                         *)
(***************************************************************************)
MaxDouble == 1

EmptyAny == [empty |-> TRUE, v |-> 0]

AnyOf(v) == [empty |-> FALSE, v |-> v]

DoubleValues == {EmptyAny} \cup {AnyOf(v) : v \in 0..MaxDouble}

BoolValues == {EmptyAny} \cup {AnyOf(v) : v \in 0..1}

\* How an eval ends: it returns a value or it lets an exception out.
Returned(x) == [thrown |-> FALSE, any |-> x]

BadAnyCast == [thrown |-> TRUE, any |-> EmptyAny]

isinf(ret) == ret > MaxDouble

\* dbl::add::eval.
dbl_add(a) ==
  IF a[1].empty THEN Returned(a[1])
  ELSE IF a[2].empty THEN Returned(a[2])
  ELSE LET ret == a[1].v + a[2].v
       IN  IF isinf(ret) THEN Returned(EmptyAny) ELSE Returned(AnyOf(ret))

\* dbl::ife::eval: arguments 2 and 3 are evaluated on demand.
dbl_ife(a) ==
  IF a[1].empty THEN Returned(a[1])
  ELSE IF a[2].empty THEN Returned(a[2])
  ELSE IF a[1].v = a[2].v THEN Returned(a[3]) ELSE Returned(a[4])

\* dbl::ifl::eval.
dbl_ifl(a) ==
  IF a[1].empty THEN Returned(a[1])
  ELSE IF a[2].empty THEN Returned(a[2])
  ELSE IF a[1].v < a[2].v THEN Returned(a[3]) ELSE Returned(a[4])

\* dbl::ifz::eval.
dbl_ifz(a) ==
  IF a[1].empty THEN Returned(a[1])
  ELSE IF a[1].v = 0 THEN Returned(a[2]) ELSE Returned(a[3])

\* boolean::l_and::eval: any_cast<bool> of each fetched argument, the second
\* fetched only when the first holds.
l_and(a) ==
  IF a[1].empty THEN BadAnyCast
  ELSE IF a[1].v = 0 THEN Returned(AnyOf(0))
  ELSE IF a[2].empty THEN BadAnyCast
  ELSE Returned(AnyOf(a[2].v))

\* boolean::l_not::eval.
l_not(a) ==
  IF a[1].empty THEN BadAnyCast ELSE Returned(AnyOf(1 - a[1].v))

\* boolean::l_or::eval.
l_or(a) ==
  IF a[1].empty THEN BadAnyCast
  ELSE IF a[1].v = 1 THEN Returned(AnyOf(1))
  ELSE IF a[2].empty THEN BadAnyCast
  ELSE Returned(AnyOf(a[2].v))

Primitives == {"FADD", "FIFE", "FIFL", "FIFZ", "AND", "NOT", "OR"}

\* The values the argument loci of a primitive can evaluate to.
Arguments(f) ==
  CASE f = "FADD" -> [1..2 -> DoubleValues]
    [] f \in {"FIFE", "FIFL"} -> [1..4 -> DoubleValues]
    [] f = "FIFZ" -> [1..3 -> DoubleValues]
    [] f \in {"AND", "OR"} -> [1..2 -> BoolValues]
    [] f = "NOT" -> [1..1 -> BoolValues]

eval(f, a) ==
  CASE f = "FADD" -> dbl_add(a)
    [] f = "FIFE" -> dbl_ife(a)
    [] f = "FIFL" -> dbl_ifl(a)
    [] f = "FIFZ" -> dbl_ifz(a)
    [] f = "AND" -> l_and(a)
    [] f = "NOT" -> l_not(a)
    [] f = "OR" -> l_or(a)

NoEval ==
  [called |-> FALSE, f |-> "FADD", args |-> <<>>, out |-> Returned(EmptyAny)]

InitPrim == ev = NoEval

\* A function gene is evaluated.
Eval(f, a) ==
  /\ ev' = [called |-> TRUE, f |-> f, args |-> a, out |-> eval(f, a)]
  /\ UNCHANGED not_prim_vars

NextPrim == \E f \in Primitives : \E a \in Arguments(f) : Eval(f, a)

(***************************************************************************)
(* Part 6: genes that take arguments (kernel/gene_inl.h) and the           *)
(* individuals made of them (kernel/individual.h).                         *)
(*                                                                         *)
(* One category; a genome is the sequence of its genes, the gene of locus  *)
(* i at position i + 1.  individual.cc is not among the sources: what the  *)
(* constructor, mutation and crossover pass to the gene constructor        *)
(* follows the description of the individual.                              *)
(***************************************************************************)
MepLen == 3

\* The arity of the function symbol at hand (dbl::add).
FunArity == 2

MepInds == {"x", "y"}

Loci == 0..(MepLen - 1)

TerminalGene == [arity |-> 0, args |-> <<>>]

gene_args_any(from, sup) == 0..(sup - 1)

\* What basic_gene(s, from, sup) can draw for one argument:
\* random::between(from, sup).
gene_args(from, sup) == from..(sup - 1)

\* basic_gene(symbol *s, index_t from, index_t sup) for the function symbol.
function_gene(from, sup) ==
  {[arity |-> FunArity, args |-> a] : a \in [1..FunArity -> gene_args(from, sup)]}

\* The genes the individual can put at locus i: any symbol with arguments
\* drawn after i where there is room after i, a terminal elsewhere.
LegalGenes(i) ==
  IF i + 1 < MepLen THEN {TerminalGene} \cup function_gene(i + 1, MepLen)
  ELSE {TerminalGene}

\* The genomes whose gene at each locus i < n is one of choice[i].
RECURSIVE GenomesOf(_, _)
GenomesOf(choice, n) ==
  IF n = 0 THEN {<<>>}
  ELSE {Append(g, x) : g \in GenomesOf(choice, n - 1), x \in choice[n - 1]}

\* individual::individual(env, sset).
RandomMeps == GenomesOf([i \in Loci |-> LegalGenes(i)], MepLen)

\* individual::mutation(p): each gene is either kept or drawn again.
mep_mutation(g) ==
  GenomesOf([i \in Loci |-> {g[i + 1]} \cup LegalGenes(i)], MepLen)

\* uniform crossover: each gene comes from the same locus of a parent.
mep_crossover(g, h) ==
  GenomesOf([i \in Loci |-> {g[i + 1], h[i + 1]}], MepLen)

InitMep ==
  /\ mep \in [MepInds -> RandomMeps]
  /\ mep_last = "none"

MepCreate(k) ==
  /\ \E g \in RandomMeps : mep' = [mep EXCEPT ![k] = g]
  /\ mep_last' = "create"
  /\ UNCHANGED not_mep_vars

MepMutation(k) ==
  /\ \E g \in mep_mutation(mep[k]) : mep' = [mep EXCEPT ![k] = g]
  /\ mep_last' = "mutation"
  /\ UNCHANGED not_mep_vars

\* The offspring of k and j takes the place of k.
MepCrossover(k, j) ==
  /\ \E g \in mep_crossover(mep[k], mep[j]) : mep' = [mep EXCEPT ![k] = g]
  /\ mep_last' = "crossover"
  /\ UNCHANGED not_mep_vars

NextMep ==
  \/ \E k \in MepInds : MepCreate(k)
  \/ \E k \in MepInds : MepMutation(k)
  \/ \E k \in MepInds, j \in MepInds : MepCrossover(k, j)

(***************************************************************************)
(* Part 7: ttable::insert and ttable::find run by two threads without a    *)
(* lock (kernel/ttable.cc).                                                *)
(*                                                                         *)
(* One thread runs insert(a, fa), the other find(b), a and b of different  *)
(* signatures mapped to the same slot, b stored there with fitness fb.     *)
(* The slot assignment of insert is a copy of the fields hash, fitness and *)
(* seal; nothing orders those stores against the loads of find, so they    *)
(* are taken one at a time and in any order.                               *)
(***************************************************************************)
SlotFields == {"hash", "fitness", "seal"}

\* The pairs of different signatures that map to the same slot.
Collisions ==
  {p \in Signatures \X Signatures : p[1] # p[2] /\ index(p[1]) = index(p[2])}

NoRace ==
  [a |-> 0, fa |-> 0, b |-> 0, fb |-> 0, seal |-> 1,
   slot |-> Slot(EmptyHash, DefaultFitness, 0),
   pending |-> {}, r_pc |-> "done", f |-> 0, ret |-> FALSE,
   probes |-> 0, hits |-> 0]

\* The table of seal 1 after insert(b, fb); the caller of find holds f.
InitRace ==
  \E p \in Collisions, fa \in Fitnesses, fb \in Fitnesses, f \in Fitnesses :
    race = [a |-> p[1], fa |-> fa, b |-> p[2], fb |-> fb, seal |-> 1,
            slot |-> Slot(p[2], fb, 1),
            pending |-> SlotFields, r_pc |-> "start", f |-> f, ret |-> FALSE,
            probes |-> 0, hits |-> 0]

\* insert(a, fa): the value the store of one field leaves in the slot.
stored(r, field) ==
  CASE field = "hash" -> [r.slot EXCEPT !.hash = r.a]
    [] field = "fitness" -> [r.slot EXCEPT !.fitness = r.fa]
    [] field = "seal" -> [r.slot EXCEPT !.seal = r.seal]

\* A load that yields the default fitness whatever the slot holds.
loaded_default(slot) == DefaultFitness

\* find(b): *fitness = s.fitness.
loaded_fitness(slot) == slot.fitness

\* insert(a, fa), table_[index(s.hash)] = s: one field is stored.
RaceStore(field) ==
  /\ field \in race.pending
  /\ race' = [race EXCEPT !.slot = stored(race, field), !.pending = @ \ {field}]
  /\ UNCHANGED not_race_vars

\* find(b): ++probes_, then the test seal_ == s.seal, which ends the call
\* when it fails.
RaceLoadSeal ==
  /\ race.r_pc = "start"
  /\ race' = [race EXCEPT !.probes = @ + 1,
                !.r_pc = IF race.seal = race.slot.seal THEN "seal" ELSE "done"]
  /\ UNCHANGED not_race_vars

\* find(b): the test h == s.hash.
RaceLoadHash ==
  /\ race.r_pc = "seal"
  /\ race' = [race EXCEPT !.ret = (race.b = race.slot.hash),
                !.r_pc = IF race.b = race.slot.hash THEN "hash" ELSE "done"]
  /\ UNCHANGED not_race_vars

\* find(b): on a hit ++hits_ and *fitness = s.fitness.
RaceLoadFitness ==
  /\ race.r_pc = "hash"
  /\ race' = [race EXCEPT !.hits = @ + 1, !.f = loaded_fitness(race.slot),
                !.r_pc = "done"]
  /\ UNCHANGED not_race_vars

NextRace ==
  \/ \E field \in SlotFields : RaceStore(field)
  \/ RaceLoadSeal
  \/ RaceLoadHash
  \/ RaceLoadFitness

(***************************************************************************)
(* Part 8: random::ring on its own (kernel/random.cc).                     *)
(***************************************************************************)
NoRing == [called |-> FALSE, base |-> 0, width |-> 0, n |-> 0, r |-> 0]

Unsigneds == 0..(Pow2(UBits) - 1)

\* The distance between two positions of the ring of n positions.
circular_distance(r, base, n) ==
  LET d == (r - base) % n IN IF d <= n - d THEN d ELSE n - d

\* width, capped at n.
capped(width, n) == IF width > n THEN n ELSE width

\* The arguments of a call of random::ring that meets its assertions,
\* assert(width) and assert(n > 1).
InitRng ==
  rng \in [called : {FALSE}, base : Unsigneds, width : Unsigneds \ {0},
           n : Unsigneds \ {0, 1}, r : {0}]

\* The call returns.
Ring ==
  /\ ~rng.called
  /\ \E r \in ring(rng.base, rng.width, rng.n) :
       /\ r.ok
       /\ rng' = [rng EXCEPT !.called = TRUE, !.r = r.v]
  /\ UNCHANGED not_rng_vars

NextRng == Ring

(***************************************************************************)
(* Part 9: automatically defined functions and terminals (kernel/adf.cc).  *)
(***************************************************************************)
\* The number of subroutines that are defined.
MaxAdf == 4

NoAdfEval == [called |-> FALSE, k |-> 0, returns |-> TRUE, chain |-> 0]

\* The subroutines the code of a new subroutine can call, the new one
\* included.
callable_self(defined) == 1..(Len(defined) + 1)

\* adf::adf(ind, ...), adt::adt(ind, ...): code_ is a copy of an individual
\* that exists when the symbol is built; it can call the subroutines that
\* are defined by then.
callable(defined) == 1..Len(defined)

\* The deepest of a set of chains.
deepest(S) == CHOOSE x \in S : \A y \in S : y <= x

\* adf::eval, adt::eval: interpreter<individual>(code_, &i).run().  The run
\* of the code of subroutine k evaluates the subroutines it calls, each in
\* an interpreter of its own; path holds the subroutines being evaluated.
\* The result tells whether the run returns and how many interpreters are
\* nested at most.
RECURSIVE nested(_, _, _)
nested(defined, k, path) ==
  IF k \in path THEN [returns |-> FALSE, chain |-> 0]
  ELSE LET below == {nested(defined, c, path \cup {k}) : c \in defined[k]}
       IN  IF \E b \in below : ~b.returns THEN [returns |-> FALSE, chain |-> 0]
           ELSE [returns |-> TRUE,
                 chain |-> 1 + deepest({0} \cup {b.chain : b \in below})]

InitAdf ==
  /\ adfs = <<>>
  /\ adf_last = NoAdfEval

\* A new adf or adt whose code calls the subroutines of body.
AdfCreate(body) ==
  /\ Len(adfs) < MaxAdf
  /\ body \subseteq callable(adfs)
  /\ adfs' = Append(adfs, body)
  /\ UNCHANGED adf_last
  /\ UNCHANGED not_adf_vars

\* adf::eval or adt::eval on subroutine k.
AdfEval(k) ==
  /\ k \in DOMAIN adfs
  /\ LET r == nested(adfs, k, {})
     IN  adf_last' = [called |-> TRUE, k |-> k, returns |-> r.returns,
                      chain |-> r.chain]
  /\ UNCHANGED adfs
  /\ UNCHANGED not_adf_vars

NextAdf ==
  \/ \E body \in SUBSET (1..(MaxAdf + 1)) : AdfCreate(body)
  \/ \E k \in 1..MaxAdf : AdfEval(k)

(***************************************************************************)
(* Part 10: sum_of_errors_evaluator::fast (kernel/src_evaluator.cc).       *)
(***************************************************************************)
\* The largest training set.
MaxData == 22

\* The largest error of the program on one example.
MaxErr == 1

\* A training set of at most SmallData examples is used whole.
SmallData == 20

\* Of a larger one, the examples whose counter is a multiple of Stride.
Stride == 5

NoFast ==
  [pc |-> "idle", size |-> 0, t |-> 0, counter |-> 0, total_nr |-> 0,
   err |-> 0, picked |-> {}]

\* fast() is entered with a training set that is not empty; t is the
\* position of the iterator, picked the positions evaluated so far.
InitSev ==
  sev \in [pc : {"loop"}, size : 1..MaxData, t : {0}, counter : {0},
           total_nr : {0}, err : {0}, picked : {{}}]

\* The test of the loop's body: dat_->size() <= 20 || (counter++ % 5) == 0.
evaluates(f) == f.size <= SmallData \/ f.counter % Stride = 0

\* One turn of the loop; e is the error of the program on the example, which
\* is of no effect when the example is skipped.
FastStep(e) ==
  /\ sev.pc = "loop"
  /\ sev.t < sev.size
  /\ e = 0 \/ evaluates(sev)
  /\ sev' = [sev EXCEPT
       !.t = @ + 1,
       !.counter = IF sev.size <= SmallData THEN @ ELSE @ + 1,
       !.err = IF evaluates(sev) THEN @ + e ELSE @,
       !.total_nr = IF evaluates(sev) THEN @ + 1 ELSE @,
       !.picked = IF evaluates(sev) THEN @ \cup {sev.t} ELSE @]
  /\ UNCHANGED not_sev_vars

\* The loop is over: fast() returns -err / total_nr.
FastReturn ==
  /\ sev.pc = "loop"
  /\ sev.t = sev.size
  /\ sev' = [sev EXCEPT !.pc = "done"]
  /\ UNCHANGED not_sev_vars

NextSev ==
  \/ \E e \in 0..MaxErr : FastStep(e)
  \/ FastReturn

(***************************************************************************)
(* Specifications.                                                         *)
(***************************************************************************)
\* No call is made on the table.
IdleTT ==
  /\ seal_ = 1
  /\ probes_ = 0
  /\ hits_ = 0
  /\ table_ = [i \in SlotIndexes |-> Slot(EmptyHash, DefaultFitness, 0)]
  /\ tt_last = NoCall
  /\ loaded = FALSE
  /\ ins_state = [h \in Signatures |-> "never"]
  /\ written = [i \in SlotIndexes |-> NoWrite]

\* No call is made on the individuals.
IdleInd ==
  /\ ind = [k \in Inds |-> CHOOSE i \in NewIndividuals : TRUE]
  /\ i_last = ICall("other")

\* No call is made on the symbol set.
IdleSS ==
  /\ sset = [all_ |-> EmptyCollection, by_ |-> by_category(EmptyCollection),
             overrun |-> FALSE]
  /\ ss_last = [called |-> FALSE, ret |-> FALSE]

\* No evolution is run.
IdleEvo ==
  /\ evo = CHOOSE e \in IdleEvolutions : TRUE
  /\ trn = NoTournament

\* No primitive is evaluated.
IdlePrim == ev = NoEval

\* No individual of genes with arguments is made.
IdleMep ==
  /\ mep = [k \in MepInds |-> [i \in 1..MepLen |-> TerminalGene]]
  /\ mep_last = "none"

\* No call is made on anything but the component at hand.
IdleRest == IdleEvo /\ IdlePrim /\ IdleMep

\* No thread runs on the table.
IdleRace == race = NoRace

\* random::ring is not called on its own.
IdleRng == rng = NoRing

\* No subroutine is defined.
IdleAdf == adfs = <<>> /\ adf_last = NoAdfEval

\* fast() is not called.
IdleSev == sev = NoFast

IdleLast == IdleRace /\ IdleRng /\ IdleAdf /\ IdleSev

IdleFirst == IdleTT /\ IdleInd /\ IdleSS /\ IdleRest

\* The table driven by find, insert, clear() and clear(individual).
InitTable == InitTT /\ IdleInd /\ IdleSS /\ IdleRest /\ IdleLast

SpecTT == InitTable /\ [][NextTT]_vars

\* The individuals that share the slot of the last signature.
SlotSignatures == {h \in Signatures : index(h) = index(MaxSig)}

\* The calls that concern one slot of the table.
NextTTSlot ==
  \/ Clear
  \/ \E h \in SlotSignatures : ClearInd(h)
  \/ \E h \in SlotSignatures, f \in Fitnesses : Find(h, f)
  \/ \E h \in SlotSignatures, f \in Fitnesses : Insert(h, f)

SpecTTSlot == InitTable /\ [][NextTTSlot]_vars

\* The same table when streams are loaded into it as well.
NextTTLoad == NextTT \/ LoadAny

SpecTTLoad == InitTable /\ [][NextTTLoad]_vars

\* Individuals created, aged and recombined.
NextCross ==
  \/ \E k \in Inds : Create(k)
  \/ \E k \in Inds : IncAge(k)
  \/ \E k \in Inds, j \in Inds, dst \in Inds : Crossover(k, j, dst)
  \/ \E k \in Inds, a \in Inds, b \in Inds : DeCrossover(k, a, b)

\* Individuals created and loaded from streams of any content.
NextIndLoad ==
  \/ \E k \in Inds : Create(k)
  \/ \E k \in Inds : Signature(k)
  \/ \E k \in Inds, stream \in Streams :
       \E avail \in 0..Fields(stream) : LoadStream(k, stream, avail)

\* Individuals created, copied, varied, compared and serialized.
InitIndividuals == InitInd /\ IdleTT /\ IdleSS /\ IdleRest /\ IdleLast

SpecInd == InitIndividuals /\ [][NextInd]_vars

SpecCross == InitIndividuals /\ [][NextCross]_vars

SpecIndLoad == InitIndividuals /\ [][NextIndLoad]_vars

\* A symbol set filled in any order and checked at any time.
InitSymbolSet == InitSS /\ IdleTT /\ IdleInd /\ IdleRest /\ IdleLast

SpecSS == InitSymbolSet /\ [][NextSS]_vars

\* Runs of evolution over any population and environment.
InitEvolution == InitEvo /\ IdleTT /\ IdleInd /\ IdleSS /\ IdlePrim /\ IdleMep /\ IdleLast

SpecEvo == InitEvolution /\ [][NextEvo]_vars

\* Tournaments held on any population.
SpecTournament == InitEvolution /\ [][NextTournament]_vars

\* Function genes evaluated on any values of their arguments.
InitPrimitives == InitPrim /\ IdleTT /\ IdleInd /\ IdleSS /\ IdleEvo /\ IdleMep /\ IdleLast

SpecPrim == InitPrimitives /\ [][NextPrim]_vars

\* Individuals generated, mutated and crossed over.
InitMeps == InitMep /\ IdleTT /\ IdleInd /\ IdleSS /\ IdleEvo /\ IdlePrim /\ IdleLast

SpecMep == InitMeps /\ [][NextMep]_vars

\* insert(a, fa) and find(b) run by two threads on the slot of b.
InitRaces == InitRace /\ IdleFirst /\ IdleRng /\ IdleAdf /\ IdleSev

SpecRace == InitRaces /\ [][NextRace]_vars

\* Calls of random::ring.
InitRings == InitRng /\ IdleFirst /\ IdleRace /\ IdleAdf /\ IdleSev

SpecRng == InitRings /\ [][NextRng]_vars

\* Definitions and evaluations of subroutines.
InitAdfs == InitAdf /\ IdleFirst /\ IdleRace /\ IdleRng /\ IdleSev

SpecAdf == InitAdfs /\ [][NextAdf]_vars

\* A call of sum_of_errors_evaluator::fast.
InitFast == InitSev /\ IdleFirst /\ IdleRace /\ IdleRng /\ IdleAdf

SpecSev == InitFast /\ [][NextSev]_vars

(***************************************************************************)
(* Claims about the transposition table.                                   *)
(***************************************************************************)

\* C1: in every state the table reaches through its constructor and any
\* sequence of find, insert, clear(), clear(individual) and load calls,
\* probes() >= hits(), i.e. ttable::debug() holds.
C1_ProbesGeHits == probes_ >= hits_

\* C2: after clear(), find(i) returns false for every individual i inserted
\* before that clear(), and keeps returning false after any number of further
\* clear() calls, until i is inserted again.
C2_StaleNotFound ==
  (tt_last.op = "find" /\ ~loaded /\ ins_state[tt_last.h] = "stale") => ~tt_last.ret

\* C3: on a table modified only by insert, find, clear() and
\* clear(individual), whenever find(i, &f) returns true the last write to i's
\* slot is an insert of i's signature made after the most recent clear() and
\* f is the fitness passed to it; when find returns false the caller's fitness
\* variable is left untouched.
C3_FindSound ==
  (tt_last.op = "find" /\ ~loaded) =>
    IF tt_last.ret
      THEN written[index(tt_last.h)] =
             [sig |-> tt_last.h, fit |-> tt_last.f_out, fresh |-> TRUE]
      ELSE tt_last.f_out = tt_last.f_in

\* C4: if ttable::load returns false the table is unchanged: seal, probes,
\* hits and every slot are the same as before the call.
C4_FailedLoadNoChange ==
  [][(tt_last'.op = "load" /\ ~tt_last'.ret) =>
       UNCHANGED <<seal_, probes_, hits_, table_>>]_vars


(***************************************************************************)
(* Claims about the numeric GA individual.                                 *)
(***************************************************************************)

\* C5: after any sequence of mutation, crossover, parameter-vector
\* assignment, gene set, load and signature() calls the cached signature of
\* every individual is empty or equal to the hash of its current genome, and
\* signature() returns the hash of the current genes.
C5_SignatureFresh ==
  /\ \A k \in Inds : ind[k].signature \in {NoSignature, hash(ind[k].genome)}
  /\ (i_last.op = "signature" => i_last.eq)

\* C6: reading into another individual the whole output of save() succeeds
\* and yields an individual with the same age and the same genes as the one
\* saved, equal to it under operator==.
C6_RoundTrip ==
  (i_last.op = "load" /\ i_last.whole) =>
    (i_last.ret /\ i_last.same_age /\ i_last.same_genes /\ i_last.eq)

\* C7: a == b is true exactly when a and b hold equal genes at every
\* position, whatever signature() calls were made on them before.
C7_EqIffGenes == i_last.op = "eq" => (i_last.eq <=> i_last.same_genes)

\* C8: the packed byte form that signature() hashes is injective on
\* genomes: two individuals whose signatures have been computed from their
\* current genes and are identical hold equal genes at every position.
C8_PackInjective ==
  \A x \in Inds, y \in Inds :
    ( /\ ind[x].signature # NoSignature
      /\ ind[x].signature = hash(ind[x].genome)
      /\ ind[y].signature = hash(ind[y].genome)
      /\ ind[x].signature = ind[y].signature )
    => GenomeEq(ind[x].genome, ind[y].genome)

\* C9 (as stated): the value mutation(p) returns equals the number of
\* positions at which the genome after the call differs from the genome
\* before the call.
C9_ReturnsChanged == i_last.op = "mutation" => i_last.n = i_last.d

\* C9 (amended): the value mutation(p) returns is the number of genes it
\* redrew, one for every position whose Bernoulli trial succeeded; the number
\* of positions at which the genome differs afterwards is at most that value.
C9_ReturnsRedrawn ==
  i_last.op = "mutation" => (i_last.n = i_last.trials /\ i_last.d <= i_last.n)

\* A mutation that redrew two genes, one of them equal to the gene it replaced.
C9_Witness == i_last.op = "mutation" /\ i_last.n = 2 /\ i_last.d = 1

C11_DebugHolds == \A k \in Inds : DebugOutcomes(ind[k]) = {TRUE}

\* C12: the age of an offspring equals the maximum of the ages of all its
\* parents, for two-point crossover and for differential evolution
\* crossover alike.
C12_OffspringAge ==
  i_last.op \in {"crossover", "de_crossover"} => i_last.age = i_last.parents_age

\* A differential evolution offspring that has the age of its oldest parent
\* while a younger individual is around.
C12_Witness ==
  /\ i_last.op = "de_crossover"
  /\ i_last.age = MaxAge
  /\ \E k \in Inds : ind[k].age < i_last.age

\* C13: if i_num_ga::load returns false the age, the genome and the cached
\* signature of the target individual are what they were before the call.
C13_FailedLoadNoChange ==
  [][(i_last'.op = "load_stream" /\ ~i_last'.ret) => ind' = ind]_vars

\* load has just failed on a stream that lacks no field (zero gene count or
\* unknown opcode), the individuals having an age and a cached signature.
C13_Witness ==
  /\ i_last.op = "load_stream"
  /\ ~i_last.ret
  /\ i_last.whole
  /\ \A k \in Inds : ind[k].age > 0 /\ ind[k].signature # NoSignature

\* C14: symbol_set::debug() returns false whenever some category of the
\* symbol set holds at least one symbol but no terminal, whatever the order
\* in which the symbols were inserted.
C14_DebugNeedsTerminals ==
  (/\ ss_last.called
   /\ \E c \in DOMAIN sset.by_ :
        Len(sset.by_[c].symbols) > 0 /\ Len(sset.by_[c].terminals) = 0)
  => ~ss_last.ret

\* C15 as stated: during evolution::run the best-known fitness of the
\* summary never decreases, at any step and at any generation boundary,
\* the generations in which the shake hook runs included.
C15_BestNeverDecreases ==
  [][evo.pc # "idle" => evo'.f_best >= evo.f_best]_vars

\* C15, amended: during evolution::run the best-known fitness of the summary
\* never decreases from one step to the next, except across a run of the
\* shake hook, which takes the best again from the first individual.
C15_BestNeverDecreasesUnshaken ==
  [][(evo.pc # "idle" /\ ~evo'.shaken) => evo'.f_best >= evo.f_best]_vars

\* A run with a shake hook in which an offspring of a later generation has
\* become the best individual.
C15_Witness ==
  /\ evo.shake
  /\ evo.pc = "step"
  /\ evo.last_imp >= 1
  /\ evo.f_best > 0

\* C16: with a generation limit G > 0 the body of the loop of evolution::run
\* is executed at most G times.
C16_AtMostGBodies == (evo.pc # "idle" /\ evo.G > 0) => evo.bodies <= evo.G

\* C19: with mate_zone = 0 a call of evolution::tournament completes
\* normally.
C19_PanmicticCompletes == (trn.called /\ trn.mate_zone = 0) => trn.ok

\* C17: when a function gene is evaluated and one of its argument loci
\* evaluates to the empty value, eval returns the empty value and lets no
\* exception out.
C17_EmptyPropagates ==
  (ev.called /\ \E i \in DOMAIN ev.args : ev.args[i].empty)
  => (~ev.out.thrown /\ ev.out.any.empty)

\* C18: in every individual obtained by random generation, mutation or
\* crossover, every argument of the function gene at locus i is greater
\* than i and smaller than the length of the genome.
C18_ForwardReferences ==
  \A k \in MepInds : \A i \in Loci :
    \A n \in DOMAIN mep[k][i + 1].args :
      mep[k][i + 1].args[n] > i /\ mep[k][i + 1].args[n] < MepLen

\* A crossover has left an individual with a function gene at each locus
\* that has room for one, one of them pointing at the last locus.
C18_Witness ==
  /\ mep_last = "crossover"
  /\ \E k \in MepInds :
       /\ \A i \in Loci : i + 1 < MepLen => mep[k][i + 1].arity = FunArity
       /\ mep[k][1].args[1] = MepLen - 1

\* C20: a find(i) made after insert(i, f), with no insert to the same slot
\* and no clear in between, returns true and yields f, the fitness most
\* recently inserted for i.
C20_FindYieldsInserted ==
  (/\ tt_last.op = "find"
   /\ written[index(tt_last.h)].fresh
   /\ written[index(tt_last.h)].sig = tt_last.h)
  => (tt_last.ret /\ tt_last.f_out = written[index(tt_last.h)].fit)

\* A find that overwrote the caller's fitness with the one inserted last.
C20_Witness ==
  /\ tt_last.op = "find"
  /\ tt_last.ret
  /\ written[index(tt_last.h)].fresh
  /\ written[index(tt_last.h)].sig = tt_last.h
  /\ tt_last.f_out = MaxFitness
  /\ tt_last.f_in = 0

\* C21: the table is direct-mapped without chaining.  After insert(a, fa)
\* followed by insert(b, fb), a and b of different signatures mapped to the
\* same slot, find(a) returns false and find(b) returns true with fb: as
\* long as no clear follows the last insert to a slot, a find on that slot
\* hits exactly for the signature inserted last and yields its fitness.
C21_CollisionEvicts ==
  (tt_last.op = "find" /\ written[index(tt_last.h)].fresh)
  => /\ tt_last.ret <=> written[index(tt_last.h)].sig = tt_last.h
     /\ tt_last.ret => tt_last.f_out = written[index(tt_last.h)].fit

\* find(a) has missed although a was inserted after the last clear(): a
\* colliding b was inserted later and holds the slot.
C21_Witness ==
  /\ tt_last.op = "find"
  /\ ~tt_last.ret
  /\ ins_state[tt_last.h] = "live"
  /\ written[index(tt_last.h)].fresh
  /\ written[index(tt_last.h)].sig # tt_last.h

\* C30: clear(individual i) invalidates only the cached entry of i: probes,
\* hits and seal are unchanged, find(i) then misses, and for every
\* individual x of another signature find(x) gives what it gave before.
C30_ClearIndFrame ==
  [][\A h \in Signatures :
       ClearInd(h) =>
         /\ seal_' = seal_ /\ probes_' = probes_ /\ hits_' = hits_
         /\ ~SlotMatches(h)'
         /\ \A x \in Signatures \ {h} :
              /\ SlotMatches(x)' <=> SlotMatches(x)
              /\ table_'[index(x)].fitness = table_[index(x)].fitness]_vars

\* C22: unsynchronized insert(a, fa) and find(b) on the same slot race:
\* find(b) can return true together with a fitness other than fb (the
\* state C22_TornFind is reached).  It does so only by loading the hash
\* before insert stores its own and the fitness after insert stored fa;
\* every other hit yields fb.
C22_HitYieldsFbOrFa ==
  (race.r_pc = "done" /\ race.ret)
  => \/ race.f = race.fb
     \/ race.f = race.fa /\ "fitness" \notin race.pending

\* find(b) has returned true with a fitness that was never stored for b.
C22_TornFind ==
  /\ race.r_pc = "done"
  /\ race.ret
  /\ race.f # race.fb
  /\ race.f = race.fa
  /\ "hash" \in race.pending

\* C23: when the shake hook has just run the fitness cache is empty, so
\* that nothing computed before the shake is read after it.
C23_ShakeClearsCache == evo.shaken => ~evo.warm

\* C28: when run returns, the summary's best fitness is at least the
\* fitness of every individual of the final population.
C28_BestBoundsPopulation ==
  evo.pc = "done" => \A i \in DOMAIN evo.pop : evo.f_best >= evo.pop[i]

\* C29: in every generation pick_stats records for each member of the
\* population its evaluated fitness.
C29_StatsAreEvaluated == ~evo.az_wrong

C25_EvalTerminates ==
  /\ \A k \in DOMAIN adfs : \A c \in adfs[k] : c < k
  /\ \A k \in DOMAIN adfs : nested(adfs, k, {}).returns
  /\ adf_last.called => adf_last.returns /\ adf_last.chain <= Len(adfs)

\* A subroutine that calls another one that calls a third one is evaluated.
C25_Witness ==
  /\ adf_last.called
  /\ adf_last.returns
  /\ adf_last.chain >= 3
  /\ adf_last.k \in DOMAIN adfs
  /\ adfs[adf_last.k] # {}

\* C26: when fast() returns it has evaluated every example of a training
\* set of at most 20 examples, and of a larger one exactly the examples in
\* positions 0, 4, 8, ... (one out of every four); the error it returns is
\* the sum of the errors divided by the number of examples evaluated.
C26_OneOutOfFour ==
  sev.pc = "done"
  => /\ sev.size <= 20 => sev.picked = 0..(sev.size - 1)
     /\ sev.size > 20 => sev.picked = {t \in 0..(sev.size - 1) : t % 4 = 0}
     /\ sev.total_nr = Cardinality(sev.picked)
     /\ sev.total_nr >= 1

\* C27: after any sequence of insert and reset_adf_weights calls every
\* symbol listed in the global collection and in each collection of a
\* category has a weight of at least 1, and the cached sum of each
\* collection is the sum of the weights of the symbols it lists.
C27_CollectionInvariants ==
  /\ \A x \in Range(sset.all_.symbols) : x.weight >= 1
  /\ sset.all_.sum = SumWeights(sset.all_.symbols)
  /\ \A c \in DOMAIN sset.by_ :
       /\ \A x \in Range(sset.by_[c].symbols) : x.weight >= 1
       /\ sset.by_[c].sum = SumWeights(sset.by_[c].symbols)


====
